---- MODULE Spec2Model ----
(***************************************************************************)
(* A model of django-comment-utils: the comment moderation registry        *)
(* (comment_utils/moderation.py), the two moderation phases hooked to the   *)
(* pre- and post-save signals of the comment model, the moderation options  *)
(* of CommentModerator and its subclasses, the delete_spam_comments         *)
(* management command, the template tags that count and list the public     *)
(* comments of an object (templatetags/moderated_comments.py) and the       *)
(* most_commented query of CommentedObjectManager (managers.py).            *)
(*                                                                         *)
(* Time is counted in ticks, TicksPerDay ticks to a day: a datetime is a    *)
(* tick, a date is a day number.                                            *)
(***************************************************************************)
EXTENDS Integers, Sequences, FiniteSets, TLC

VARIABLES
    registry,   \* Moderator._registry: a dict of model -> moderation class instance
    now,        \* datetime.datetime.now(), in ticks
    comments,   \* the rows of the comment table
    next_id,    \* the next primary key the comment table hands out
    instance,   \* the comment instance that is being saved: <<>> or <<comment>>
    pc,         \* the position of Model.save(): idle, pre_save, insert, post_save
    last        \* what the last call did: its name and its outcome

vars == <<registry, now, comments, next_id, instance, pc, last>>

----------------------------------------------------------------------------
\* Bounds of the model.

TicksPerDay == 2      \* the resolution of a datetime within a day
MaxNow == 4           \* the clock runs over the ticks 0..MaxNow
MaxAfter == 2         \* close_after and moderate_after range over 0..MaxAfter
MaxList == 3          \* register/unregister take lists of up to MaxList models
MaxIds == 1           \* the comment table hands out the ids 1..MaxIds
MaxAge == 2           \* delete_spam_comments takes an age of 0..MaxAge days
MaxRows == 2          \* the comment table delete_spam_comments and the tags run on holds up to MaxRows rows
MaxNum == 3           \* most_commented is asked for 0..MaxNum objects

Models == {"Entry", "Page"}

None == "None"

DayOf(t) == t \div TicksPerDay

\* The values a DateField (a day) or a DateTimeField (a tick) can hold; the
\* clock's range and one day past it, so that a field can lie in the future.
DateValues == [kind : {"date"}, at : 0..(DayOf(MaxNow) + 1)]
DateTimeValues == [kind : {"datetime"}, at : 0..(MaxNow + 1)]
FieldDates == DateValues \cup DateTimeValues

\* A content object: the fields the moderation options can name.
Objects == [enable_comments : BOOLEAN, moderate : BOOLEAN, pub_date : FieldDates]

----------------------------------------------------------------------------
\* Outcomes of a call: a returned value or a raised exception.

Ret(v) == [exc |-> "none", val |-> v]
Raise(e) == [exc |-> e, val |-> FALSE]

\* Python's truth value of an option that is None or a number of days: None
\* is written 0 here, and both are false in "field and days".
Truthy(days) == days # 0

\* getattr(content_object, field) for the field names of Objects.
getattr(obj, field) ==
    CASE field = "enable_comments" -> obj.enable_comments
      [] field = "moderate" -> obj.moderate
      [] field = "pub_date" -> obj.pub_date

----------------------------------------------------------------------------
\* CommentModerator and its subclasses.

\* The options of a moderation class and their defaults. A field option is
\* None or the name of a field; close_after and moderate_after are 0 (unset)
\* or a number of days.
CommentModerator ==
    [kind |-> "CommentModerator", akismet |-> FALSE,
     auto_close_field |-> None, auto_moderate_field |-> None,
     close_after |-> 0, email_notification |-> FALSE,
     enable_field |-> None, moderate_after |-> 0, moderate_field |-> None]

AkismetModerator == [CommentModerator EXCEPT !.akismet = TRUE]

AlwaysModerate == [CommentModerator EXCEPT !.kind = "AlwaysModerate"]

NoComments == [CommentModerator EXCEPT !.kind = "NoComments"]

ModerateFirstTimers == [CommentModerator EXCEPT !.kind = "ModerateFirstTimers"]

\* The example of the module's documentation.
EntryModerator ==
    [CommentModerator EXCEPT !.akismet = TRUE, !.email_notification = TRUE,
                             !.enable_field = "enable_comments"]

Kinds == {"CommentModerator", "AlwaysModerate", "NoComments", "ModerateFirstTimers"}

\* Every subclass that sets the options of CommentModerator within the bounds.
AllClasses ==
    [kind : Kinds, akismet : BOOLEAN,
     auto_close_field : {None, "pub_date"},
     auto_moderate_field : {None, "pub_date"},
     close_after : 0..MaxAfter,
     email_notification : BOOLEAN,
     enable_field : {None, "enable_comments"},
     moderate_after : 0..MaxAfter,
     moderate_field : {None, "moderate"}]

\* A _get_delta that answers with a negative delta for a date in the future.
get_delta_days_unchecked(t, then) ==
    IF then.kind = "date"
    THEN Ret(DayOf(t) - then.at)
    ELSE Ret(-((then.at - t + TicksPerDay - 1) \div TicksPerDay))

\* CommentModerator._get_delta(now, then).days; now is a datetime. When then
\* is a date both are coerced to dates.
get_delta_days(t, then) ==
    IF then.kind = "date"
    THEN IF DayOf(t) < then.at
         THEN Raise("ValueError")
         ELSE Ret(DayOf(t) - then.at)
    ELSE IF t < then.at
         THEN Raise("ValueError")
         ELSE Ret((t - then.at) \div TicksPerDay)

\* An allow that still lets a comment through close_after days after the date.
CommentModerator_allow_late(self, content_object, t) ==
    IF self.enable_field # None /\ ~getattr(content_object, self.enable_field)
    THEN Ret(FALSE)
    ELSE IF self.auto_close_field # None /\ Truthy(self.close_after)
         THEN LET d == get_delta_days(t, getattr(content_object, self.auto_close_field))
              IN  IF d.exc # "none" THEN d
                  ELSE IF d.val > self.close_after THEN Ret(FALSE) ELSE Ret(TRUE)
         ELSE Ret(TRUE)

\* CommentModerator.allow
CommentModerator_allow(self, content_object, t) ==
    IF self.enable_field # None /\ ~getattr(content_object, self.enable_field)
    THEN Ret(FALSE)
    ELSE IF self.auto_close_field # None /\ Truthy(self.close_after)
         THEN LET d == get_delta_days(t, getattr(content_object, self.auto_close_field))
              IN  IF d.exc # "none" THEN d
                  ELSE IF d.val >= self.close_after THEN Ret(FALSE) ELSE Ret(TRUE)
         ELSE Ret(TRUE)

\* NoComments.allow
NoComments_allow(self, content_object, t) == Ret(FALSE)

\* The allow method a moderation class instance answers with.
allow(self, content_object, t) ==
    IF self.kind = "NoComments"
    THEN NoComments_allow(self, content_object, t)
    ELSE CommentModerator_allow(self, content_object, t)

\* The answers of the Akismet service: whether the API key verifies and
\* whether the comment is judged spam.
AkismetAnswers == [verify_key : BOOLEAN, comment_check : BOOLEAN]

\* A moderate that takes the answer of the spam check without the API key
\* having verified.
CommentModerator_moderate_unverified(self, content_object, t, api) ==
    LET d == IF self.auto_moderate_field # None /\ Truthy(self.moderate_after)
             THEN get_delta_days(t, getattr(content_object, self.auto_moderate_field))
             ELSE Ret(-1)
    IN  IF d.exc # "none" THEN d
        ELSE IF self.auto_moderate_field # None /\ Truthy(self.moderate_after)
                /\ d.val >= self.moderate_after
             THEN Ret(TRUE)
             ELSE IF self.akismet /\ api.comment_check
                  THEN Ret(TRUE)
                  ELSE Ret(FALSE)

\* CommentModerator.moderate
CommentModerator_moderate(self, content_object, t, api) ==
    LET d == IF self.auto_moderate_field # None /\ Truthy(self.moderate_after)
             THEN get_delta_days(t, getattr(content_object, self.auto_moderate_field))
             ELSE Ret(-1)
    IN  IF d.exc # "none" THEN d
        ELSE IF self.auto_moderate_field # None /\ Truthy(self.moderate_after)
                /\ d.val >= self.moderate_after
             THEN Ret(TRUE)
             ELSE IF self.akismet /\ api.verify_key /\ api.comment_check
                  THEN Ret(TRUE)
                  ELSE Ret(FALSE)

\* AlwaysModerate.moderate
AlwaysModerate_moderate(self, content_object, t, api) == Ret(TRUE)

\* ModerateFirstTimers.moderate: the name comment_class it looks the approved
\* comments up with is bound nowhere in the module.
ModerateFirstTimers_moderate(self, content_object, t, api) == Raise("NameError")

\* The moderate method a moderation class instance answers with.
moderate(self, content_object, t, api) ==
    CASE self.kind = "AlwaysModerate" ->
            AlwaysModerate_moderate(self, content_object, t, api)
      [] self.kind = "ModerateFirstTimers" ->
            ModerateFirstTimers_moderate(self, content_object, t, api)
      [] OTHER -> CommentModerator_moderate(self, content_object, t, api)

\* The requests CommentModerator.moderate makes to the Akismet service, in
\* their order: none when the date rule has returned True (or raised) before,
\* verify_key when akismet is set, and comment_check when the key verified.
CommentModerator_moderate_requests(self, content_object, t, api) ==
    LET dated == self.auto_moderate_field # None /\ Truthy(self.moderate_after)
        d == IF dated
             THEN get_delta_days(t, getattr(content_object, self.auto_moderate_field))
             ELSE Ret(-1)
    IN  IF d.exc # "none" THEN <<>>
        ELSE IF dated /\ d.val >= self.moderate_after THEN <<>>
        ELSE IF ~self.akismet THEN <<>>
        ELSE IF api.verify_key THEN <<"verify_key", "comment_check">>
        ELSE <<"verify_key">>

\* The requests to Akismet the moderate method of an instance makes: the
\* subclasses that override moderate make none.
moderate_requests(self, content_object, t, api) ==
    IF self.kind \in {"AlwaysModerate", "ModerateFirstTimers"}
    THEN <<>>
    ELSE CommentModerator_moderate_requests(self, content_object, t, api)

\* A comments_open that closes comments one day later than allow does.
CommentModerator_comments_open_late(self, obj, t) ==
    IF self.enable_field # None /\ ~getattr(obj, self.enable_field)
    THEN Ret(FALSE)
    ELSE IF self.auto_close_field # None /\ Truthy(self.close_after)
         THEN LET d == get_delta_days(t, getattr(obj, self.auto_close_field))
              IN  IF d.exc # "none" THEN d
                  ELSE IF d.val > self.close_after THEN Ret(FALSE) ELSE Ret(TRUE)
         ELSE Ret(TRUE)

\* CommentModerator.comments_open
CommentModerator_comments_open(self, obj, t) ==
    IF self.enable_field # None /\ ~getattr(obj, self.enable_field)
    THEN Ret(FALSE)
    ELSE IF self.auto_close_field # None /\ Truthy(self.close_after)
         THEN LET d == get_delta_days(t, getattr(obj, self.auto_close_field))
              IN  IF d.exc # "none" THEN d
                  ELSE IF d.val >= self.close_after THEN Ret(FALSE) ELSE Ret(TRUE)
         ELSE Ret(TRUE)

\* NoComments.comments_open
NoComments_comments_open(self, obj, t) == Ret(FALSE)

\* The comments_open method a moderation class instance answers with.
comments_open(self, obj, t) ==
    IF self.kind = "NoComments"
    THEN NoComments_comments_open(self, obj, t)
    ELSE CommentModerator_comments_open(self, obj, t)

\* CommentModerator.comments_moderated
CommentModerator_comments_moderated(self, obj, t) ==
    IF self.moderate_field # None /\ getattr(obj, self.moderate_field)
    THEN Ret(TRUE)
    ELSE IF self.auto_moderate_field # None /\ Truthy(self.moderate_after)
         THEN LET d == get_delta_days(t, getattr(obj, self.auto_moderate_field))
              IN  IF d.exc # "none" THEN d
                  ELSE IF d.val >= self.moderate_after THEN Ret(TRUE) ELSE Ret(FALSE)
         ELSE Ret(FALSE)

\* AlwaysModerate.comments_moderated
AlwaysModerate_comments_moderated(self, obj, t) == Ret(TRUE)

\* The comments_moderated method a moderation class instance answers with.
comments_moderated(self, obj, t) ==
    IF self.kind = "AlwaysModerate"
    THEN AlwaysModerate_comments_moderated(self, obj, t)
    ELSE CommentModerator_comments_moderated(self, obj, t)

\* An email method that does not look at email_notification.
email_always(self) == 1

\* CommentModerator.email: the number of send_mail calls it makes.
email(self) == IF ~self.email_notification THEN 0 ELSE 1

----------------------------------------------------------------------------
\* Moderator: the registry.

\* The moderation classes register is called with: classes of the module,
\* the example of its documentation, and a subclass that sets the date
\* options.
DatedModerator ==
    [CommentModerator EXCEPT !.auto_close_field = "pub_date", !.close_after = MaxAfter,
                             !.auto_moderate_field = "pub_date", !.moderate_after = 1,
                             !.email_notification = TRUE]

RegisteredClasses ==
    {CommentModerator, AlwaysModerate, NoComments, EntryModerator, DatedModerator}

\* The values of the model_or_iterable argument: a model class, or a list of
\* model classes.
ListsOfModels == UNION {[1..n -> Models] : n \in 0..MaxList}
ModelArgs ==
    [is_model : {TRUE}, model : Models] \cup [is_model : {FALSE}, list : ListsOfModels]

\* The calls with one model: the model itself, or a list of it.
OneModelArgs == {a \in ModelArgs : a.is_model \/ Len(a.list) = 1}

\* "if isinstance(model_or_iterable, ModelBase): model_or_iterable = [...]"
AsList(model_or_iterable) ==
    IF model_or_iterable.is_model
    THEN <<model_or_iterable.model>>
    ELSE model_or_iterable.list

\* The dict reg with reg[model] = value set.
SetItem(reg, model, value) ==
    [m \in (DOMAIN reg) \cup {model} |-> IF m = model THEN value ELSE reg[m]]

\* The dict reg after "del reg[model]".
DelItem(reg, model) == [m \in (DOMAIN reg) \ {model} |-> reg[m]]

\* A register that looks at the whole list before it registers any model.
register_loop_atomic(reg, models, moderation_class, i) ==
    IF \E k \in i..Len(models) :
          models[k] \in DOMAIN reg \/ \E j \in i..(k - 1) : models[j] = models[k]
    THEN [registry |-> reg, exc |-> "AlreadyModerated"]
    ELSE [registry |-> [m \in (DOMAIN reg) \cup {models[k] : k \in i..Len(models)} |->
                           IF m \in DOMAIN reg THEN reg[m] ELSE moderation_class],
          exc |-> "none"]

\* A register that replaces the moderation class of a registered model
\* instead of raising.
RECURSIVE register_loop_overwrite(_, _, _, _)
register_loop_overwrite(reg, models, moderation_class, i) ==
    IF i > Len(models)
    THEN [registry |-> reg, exc |-> "none"]
    ELSE register_loop_overwrite(SetItem(reg, models[i], moderation_class),
                                 models, moderation_class, i + 1)

\* The loop of Moderator.register from the i-th model of the list on: the
\* registry it leaves and the exception it ends with.
RECURSIVE register_loop(_, _, _, _)
register_loop(reg, models, moderation_class, i) ==
    IF i > Len(models)
    THEN [registry |-> reg, exc |-> "none"]
    ELSE IF models[i] \in DOMAIN reg
         THEN [registry |-> reg, exc |-> "AlreadyModerated"]
         ELSE register_loop(SetItem(reg, models[i], moderation_class),
                            models, moderation_class, i + 1)

\* An unregister that passes over a model that is not registered instead of
\* raising.
RECURSIVE unregister_loop_lenient(_, _, _)
unregister_loop_lenient(reg, models, i) ==
    IF i > Len(models)
    THEN [registry |-> reg, exc |-> "none"]
    ELSE unregister_loop_lenient(DelItem(reg, models[i]), models, i + 1)

\* The loop of Moderator.unregister from the i-th model of the list on.
RECURSIVE unregister_loop(_, _, _)
unregister_loop(reg, models, i) ==
    IF i > Len(models)
    THEN [registry |-> reg, exc |-> "none"]
    ELSE IF models[i] \notin DOMAIN reg
         THEN [registry |-> reg, exc |-> "NotModerated"]
         ELSE unregister_loop(DelItem(reg, models[i]), models, i + 1)

\* The record of a call: its name, the exception it raised, the value it
\* returned, what it did, the number it reported or the mails it sent, and
\* the lines it printed.
Outcome(op, exc, val, did, count, lines) ==
    [op |-> op, exc |-> exc, val |-> val, did |-> did, count |-> count,
     lines |-> lines]

\* The arguments of a call of the registry: the models it was given (and
\* whether as a single model class), the moderation class, the object asked
\* about.
NoObject ==
    [enable_comments |-> FALSE, moderate |-> FALSE,
     pub_date |-> [kind |-> "date", at |-> 0]]
Args(is_model, models, moderation_class, obj) ==
    [is_model |-> is_model, models |-> models, moderation_class |-> moderation_class,
     obj |-> obj]

\* Moderator.register
register(model_or_iterable, moderation_class) ==
    /\ pc = "idle"
    /\ LET r == register_loop(registry, AsList(model_or_iterable), moderation_class, 1)
       IN  /\ registry' = r.registry
           /\ last' = [op |-> "register", exc |-> r.exc,
                       args |-> Args(model_or_iterable.is_model, AsList(model_or_iterable),
                                     moderation_class, NoObject)]
    /\ UNCHANGED <<now, comments, next_id, instance, pc>>

\* Moderator.unregister
unregister(model_or_iterable) ==
    /\ pc = "idle"
    /\ LET r == unregister_loop(registry, AsList(model_or_iterable), 1)
       IN  /\ registry' = r.registry
           /\ last' = [op |-> "unregister", exc |-> r.exc,
                       args |-> Args(model_or_iterable.is_model, AsList(model_or_iterable),
                                     CommentModerator, NoObject)]
    /\ UNCHANGED <<now, comments, next_id, instance, pc>>

\* A comments_open that takes a model without moderation rules for closed.
Moderator_comments_open_closed(model, obj) ==
    /\ pc = "idle"
    /\ LET r == IF model \notin DOMAIN registry
                THEN Ret(FALSE)
                ELSE comments_open(registry[model], obj, now)
       IN  last' = [op |-> "comments_open", exc |-> r.exc, val |-> r.val,
                    args |-> Args(TRUE, <<model>>, CommentModerator, obj)]
    /\ UNCHANGED <<registry, now, comments, next_id, instance, pc>>

\* Moderator.comments_open(obj), obj an instance of model; the filter
\* comments_open of the template library returns its answer.
Moderator_comments_open(model, obj) ==
    /\ pc = "idle"
    /\ LET r == IF model \notin DOMAIN registry
                THEN Ret(TRUE)
                ELSE comments_open(registry[model], obj, now)
       IN  last' = [op |-> "comments_open", exc |-> r.exc, val |-> r.val,
                    args |-> Args(TRUE, <<model>>, CommentModerator, obj)]
    /\ UNCHANGED <<registry, now, comments, next_id, instance, pc>>

\* Moderator.comments_moderated(obj), obj an instance of model.
Moderator_comments_moderated(model, obj) ==
    /\ pc = "idle"
    /\ LET r == IF model \notin DOMAIN registry
                THEN Ret(FALSE)
                ELSE comments_moderated(registry[model], obj, now)
       IN  last' = [op |-> "comments_moderated", exc |-> r.exc, val |-> r.val,
                    args |-> Args(TRUE, <<model>>, CommentModerator, obj)]
    /\ UNCHANGED <<registry, now, comments, next_id, instance, pc>>

----------------------------------------------------------------------------
\* Saving a comment: Model.save() sends pre_save, writes the row and sends
\* post_save.

\* The objects the filters are asked about: published on day 0, at tick 1,
\* or on the day after the clock's last.
QueriedObjects ==
    {o \in Objects : o.pub_date \in {[kind |-> "date", at |-> 0],
                                     [kind |-> "datetime", at |-> 1],
                                     [kind |-> "date", at |-> DayOf(MaxNow) + 1]}}

\* The objects comments are saved on.
CommentedObjects == {o \in QueriedObjects : ~o.moderate}

\* The objects the stored comments that are saved again are on.
RecommentedObjects == {o \in CommentedObjects : o.pub_date.at = 0}

\* The row of the comment table an instance is written to.
Row(comment) ==
    [id |-> comment.id, model |-> comment.model, is_public |-> comment.is_public,
     submit_date |-> comment.submit_date]

\* save() of a new comment on content_object, an object of model: the
\* instance has no id yet.
save_new(model, content_object, is_public) ==
    /\ pc = "idle"
    /\ next_id <= MaxIds
    /\ instance' = <<[id |-> 0, model |-> model, content_object |-> content_object,
                      is_public |-> is_public, submit_date |-> now,
                      moderation_disallowed |-> FALSE]>>
    /\ pc' = "pre_save"
    /\ last' = Outcome("save", "none", FALSE, "new", 0, 0)
    /\ UNCHANGED <<registry, now, comments, next_id>>

\* save() of a stored comment loaded from its row, with is_public as edited.
save_existing(row, content_object, is_public) ==
    /\ pc = "idle"
    /\ row \in comments
    /\ instance' = <<[id |-> row.id, model |-> row.model,
                      content_object |-> content_object, is_public |-> is_public,
                      submit_date |-> row.submit_date,
                      moderation_disallowed |-> FALSE]>>
    /\ pc' = "pre_save"
    /\ last' = Outcome("save", "none", FALSE, "existing", 0, 0)
    /\ UNCHANGED <<registry, now, comments, next_id>>

\* The record of a call of the pre-save hook: what it did and the requests
\* its moderate made to Akismet.
PreSaveOutcome(exc, did, requests) ==
    [op |-> "pre_save_moderation", exc |-> exc, val |-> FALSE, did |-> did,
     count |-> 0, lines |-> 0, requests |-> requests]

\* A pre-save hook that publishes every comment it does not moderate.
pre_save_moderation_publish(api) ==
    /\ pc = "pre_save"
    /\ LET inst == instance[1]
           model == inst.model
           content_object == inst.content_object
       IN  IF inst.id # 0 \/ model \notin DOMAIN registry
           THEN /\ pc' = "insert"
                /\ last' = PreSaveOutcome("none", "returned", <<>>)
                /\ UNCHANGED instance
           ELSE LET moderation_class == registry[model]
                    a == allow(moderation_class, content_object, now)
                    m == moderate(moderation_class, content_object, now, api)
                    asked == moderate_requests(moderation_class, content_object, now, api)
                IN  IF a.exc # "none"
                    THEN /\ pc' = "raised"
                         /\ last' = PreSaveOutcome(a.exc, "raised", <<>>)
                         /\ UNCHANGED instance
                    ELSE IF ~a.val
                    THEN /\ pc' = "insert"
                         /\ instance' = <<[inst EXCEPT !.moderation_disallowed = TRUE]>>
                         /\ last' = PreSaveOutcome("none", "disallowed", <<>>)
                    ELSE IF m.exc # "none"
                    THEN /\ pc' = "raised"
                         /\ last' = PreSaveOutcome(m.exc, "raised", <<>>)
                         /\ UNCHANGED instance
                    ELSE /\ pc' = "insert"
                         /\ instance' = <<[inst EXCEPT !.is_public = ~m.val]>>
                         /\ last' = PreSaveOutcome("none", IF m.val THEN "moderated" ELSE "allowed", asked)
    /\ UNCHANGED <<registry, now, comments, next_id>>

\* Moderator.pre_save_moderation; api is what the Akismet service answers.
\* An exception of allow or moderate leaves save() before the row is written.
pre_save_moderation(api) ==
    /\ pc = "pre_save"
    /\ LET inst == instance[1]
           model == inst.model
           content_object == inst.content_object
       IN  IF inst.id # 0 \/ model \notin DOMAIN registry
           THEN /\ pc' = "insert"
                /\ last' = PreSaveOutcome("none", "returned", <<>>)
                /\ UNCHANGED instance
           ELSE LET moderation_class == registry[model]
                    a == allow(moderation_class, content_object, now)
                    m == moderate(moderation_class, content_object, now, api)
                    asked == moderate_requests(moderation_class, content_object, now, api)
                IN  IF a.exc # "none"
                    THEN /\ pc' = "raised"
                         /\ last' = PreSaveOutcome(a.exc, "raised", <<>>)
                         /\ UNCHANGED instance
                    ELSE IF ~a.val
                    THEN /\ pc' = "insert"
                         /\ instance' = <<[inst EXCEPT !.moderation_disallowed = TRUE]>>
                         /\ last' = PreSaveOutcome("none", "disallowed", <<>>)
                    ELSE IF m.exc # "none"
                    THEN /\ pc' = "raised"
                         /\ last' = PreSaveOutcome(m.exc, "raised", <<>>)
                         /\ UNCHANGED instance
                    ELSE IF m.val
                    THEN /\ pc' = "insert"
                         /\ instance' = <<[inst EXCEPT !.is_public = FALSE]>>
                         /\ last' = PreSaveOutcome("none", "moderated", asked)
                    ELSE /\ pc' = "insert"
                         /\ last' = PreSaveOutcome("none", "allowed", asked)
                         /\ UNCHANGED instance
    /\ UNCHANGED <<registry, now, comments, next_id>>

\* The caller of a save() that raised is left with the unsaved instance.
save_raised ==
    /\ pc = "raised"
    /\ pc' = "idle"
    /\ instance' = <<>>
    /\ UNCHANGED <<registry, now, comments, next_id, last>>

\* Model.save() writes the row: an insert that gives a new instance its id,
\* an update of the row of a stored one.
save_base ==
    /\ pc = "insert"
    /\ LET inst == instance[1]
           saved == IF inst.id = 0 THEN [inst EXCEPT !.id = next_id] ELSE inst
       IN  /\ instance' = <<saved>>
           /\ comments' = {c \in comments : c.id # saved.id} \cup {Row(saved)}
           /\ next_id' = IF inst.id = 0 THEN next_id + 1 ELSE next_id
    /\ pc' = "post_save"
    /\ last' = Outcome("save_base", "none", FALSE, "written", 0, 0)
    /\ UNCHANGED <<registry, now>>

\* A post-save hook that leaves a disallowed comment in the table.
post_save_moderation_keep ==
    /\ pc = "post_save"
    /\ LET inst == instance[1]
           model == inst.model
       IN  IF model \notin DOMAIN registry
           THEN last' = Outcome("post_save_moderation", "none", FALSE, "returned", 0, 0)
           ELSE IF inst.moderation_disallowed
           THEN last' = Outcome("post_save_moderation", "none", FALSE, "deleted", 0, 0)
           ELSE last' = Outcome("post_save_moderation", "none", FALSE, "email",
                                email(registry[model]), 0)
    /\ pc' = "idle"
    /\ instance' = <<>>
    /\ UNCHANGED <<registry, now, next_id, comments>>

\* Moderator.post_save_moderation
post_save_moderation ==
    /\ pc = "post_save"
    /\ LET inst == instance[1]
           model == inst.model
       IN  IF model \notin DOMAIN registry
           THEN /\ last' = Outcome("post_save_moderation", "none", FALSE, "returned", 0, 0)
                /\ UNCHANGED comments
           ELSE IF inst.moderation_disallowed
           THEN /\ comments' = {c \in comments : c.id # inst.id}
                /\ last' = Outcome("post_save_moderation", "none", FALSE, "deleted", 0, 0)
           ELSE /\ last' = Outcome("post_save_moderation", "none", FALSE, "email",
                                   email(registry[model]), 0)
                /\ UNCHANGED comments
    /\ pc' = "idle"
    /\ instance' = <<>>
    /\ UNCHANGED <<registry, now, next_id>>

\* Time passes between the calls.
Tick ==
    /\ pc = "idle"
    /\ now < MaxNow
    /\ now' = now + 1
    /\ UNCHANGED <<registry, comments, next_id, instance, pc, last>>

----------------------------------------------------------------------------
\* The delete_spam_comments management command.

\* A filter that also selects the comments submitted at the cutoff.
comments_to_delete_inclusive(rows, t, age) ==
    LET age_cutoff == t - age * TicksPerDay
    IN  {c \in rows : ~c.is_public /\ c.submit_date <= age_cutoff}

\* The comments the filter of delete_spam_comments selects.
comments_to_delete(rows, t, age) ==
    LET age_cutoff == t - age * TicksPerDay
    IN  {c \in rows : ~c.is_public /\ c.submit_date < age_cutoff}

\* A command that deletes on a dry run as well.
delete_spam_comments_wet(age, dry_run, verbosity) ==
    /\ pc = "idle"
    /\ LET to_delete == comments_to_delete(comments, now, age)
           deleted_count == Cardinality(to_delete)
       IN  /\ comments' = comments \ to_delete
           /\ last' = Outcome("delete_spam_comments", "none", dry_run, "", deleted_count,
                              (IF ~dry_run /\ verbosity > 1 THEN deleted_count ELSE 0) + 1)
    /\ UNCHANGED <<registry, now, next_id, instance, pc>>

\* delete_spam_comments(age, dry_run, verbosity)
delete_spam_comments(age, dry_run, verbosity) ==
    /\ pc = "idle"
    /\ LET to_delete == comments_to_delete(comments, now, age)
           deleted_count == Cardinality(to_delete)
       IN  /\ comments' = IF ~dry_run THEN comments \ to_delete ELSE comments
           /\ last' = Outcome("delete_spam_comments", "none", dry_run, "", deleted_count,
                              (IF ~dry_run /\ verbosity > 1 THEN deleted_count ELSE 0) + 1)
    /\ UNCHANGED <<registry, now, next_id, instance, pc>>

----------------------------------------------------------------------------
\* The specification of the registry and the two moderation phases: the
\* registry is empty when the module is imported, and the comment table is
\* empty.

EmptyDict == [m \in {} |-> CommentModerator]

\* The clock stands at its first or at its last tick: time does not pass
\* while comments are saved.
Init ==
    /\ registry = EmptyDict
    /\ now \in {0, MaxNow}
    /\ comments = {}
    /\ next_id = 1
    /\ instance = <<>>
    /\ pc = "idle"
    /\ last = Outcome("import", "none", FALSE, "", 0, 0)

Next ==
    \/ \E a \in OneModelArgs, c \in RegisteredClasses : register(a, c)
    \/ \E a \in ModelArgs : unregister(a)
    \/ \E m \in Models, o \in CommentedObjects, p \in BOOLEAN : save_new(m, o, p)
    \/ \E r \in comments, o \in RecommentedObjects, p \in BOOLEAN : save_existing(r, o, p)
    \/ \E api \in AkismetAnswers : pre_save_moderation(api)
    \/ save_raised
    \/ save_base
    \/ post_save_moderation

Spec == Init /\ [][Next]_vars

\* The registry and the filters alone, with lists of models: the classes
\* registered are one that closes comments, one that moderates them and one
\* whose answers depend on the date.
FilterClasses == {NoComments, AlwaysModerate, DatedModerator}

NextRegistry ==
    \/ \E a \in ModelArgs, c \in FilterClasses : register(a, c)
    \/ \E a \in ModelArgs : unregister(a)
    \/ \E m \in Models, o \in CommentedObjects : Moderator_comments_open(m, o)
    \/ \E m \in Models, o \in CommentedObjects : Moderator_comments_moderated(m, o)

InitRegistry ==
    /\ registry = EmptyDict
    /\ now \in 0..MaxNow
    /\ comments = {}
    /\ next_id = 1
    /\ instance = <<>>
    /\ pc = "idle"
    /\ last = Outcome("import", "none", FALSE, "", 0, 0)

SpecRegistry == InitRegistry /\ [][NextRegistry]_vars

----------------------------------------------------------------------------
\* The moderation options, one call at a time: a model is registered with
\* any moderation class, and the methods of its instance are called as the
\* hooks and the filters call them.

\* registry[model].allow(comment, content_object)
call_allow(model, content_object) ==
    /\ pc = "idle"
    /\ model \in DOMAIN registry
    /\ LET r == allow(registry[model], content_object, now)
       IN  last' = Outcome("allow", r.exc, r.val, "", 0, 0)
    /\ UNCHANGED <<registry, now, comments, next_id, instance, pc>>

\* registry[model].moderate(comment, content_object)
call_moderate(model, content_object, api) ==
    /\ pc = "idle"
    /\ model \in DOMAIN registry
    /\ LET r == moderate(registry[model], content_object, now, api)
       IN  last' = Outcome("moderate", r.exc, r.val, "", 0, 0)
    /\ UNCHANGED <<registry, now, comments, next_id, instance, pc>>

\* registry[model].comments_open(obj)
call_comments_open(model, obj) ==
    /\ pc = "idle"
    /\ model \in DOMAIN registry
    /\ LET r == comments_open(registry[model], obj, now)
       IN  last' = Outcome("comments_open", r.exc, r.val, "", 0, 0)
    /\ UNCHANGED <<registry, now, comments, next_id, instance, pc>>

\* registry[model].comments_moderated(obj)
call_comments_moderated(model, obj) ==
    /\ pc = "idle"
    /\ model \in DOMAIN registry
    /\ LET r == comments_moderated(registry[model], obj, now)
       IN  last' = Outcome("comments_moderated", r.exc, r.val, "", 0, 0)
    /\ UNCHANGED <<registry, now, comments, next_id, instance, pc>>

\* The options that decide allow, moderate, comments_open and
\* comments_moderated; email_notification takes no part in them.
ConfigClasses == {c \in AllClasses : ~c.email_notification}

InitConfig ==
    /\ registry \in {[m \in {"Entry"} |-> c] : c \in ConfigClasses}
    /\ now \in 0..MaxNow
    /\ comments = {}
    /\ next_id = 1
    /\ instance = <<>>
    /\ pc = "idle"
    /\ last = Outcome("import", "none", FALSE, "", 0, 0)

NextConfig ==
    \/ \E m \in Models, o \in QueriedObjects : call_allow(m, o)
    \/ \E m \in Models, o \in QueriedObjects, api \in AkismetAnswers : call_moderate(m, o, api)
    \/ \E m \in Models, o \in QueriedObjects : call_comments_open(m, o)
    \/ \E m \in Models, o \in QueriedObjects : call_comments_moderated(m, o)

SpecConfig == InitConfig /\ [][NextConfig]_vars

----------------------------------------------------------------------------
\* Saving comments on the objects of a model that is registered with a
\* moderation class that sets the date options and Akismet.

\* The subclasses of CommentModerator that set akismet, enable_field,
\* auto_moderate_field with any moderate_after, and auto_close_field with the
\* longest close_after.
ModeratedClasses ==
    {c \in AllClasses :
        /\ c.kind = "CommentModerator"
        /\ ~c.email_notification
        /\ c.moderate_field = None
        /\ c.close_after = (IF c.auto_close_field = None THEN 0 ELSE MaxAfter)}

InitModerated ==
    /\ registry \in {[m \in {"Entry"} |-> c] : c \in ModeratedClasses}
    /\ now \in 0..MaxNow
    /\ comments = {}
    /\ next_id = 1
    /\ instance = <<>>
    /\ pc = "idle"
    /\ last = Outcome("import", "none", FALSE, "", 0, 0)

NextModerated ==
    \/ \E o \in CommentedObjects, p \in BOOLEAN : save_new("Entry", o, p)
    \/ \E api \in AkismetAnswers : pre_save_moderation(api)
    \/ save_raised
    \/ save_base
    \/ post_save_moderation

SpecModerated == InitModerated /\ [][NextModerated]_vars

----------------------------------------------------------------------------
\* The delete_spam_comments command on a comment table of any content.

\* The tables of up to MaxRows comments submitted within the clock's range.
TableOf(f) ==
    {[id |-> i, model |-> "Entry", is_public |-> f[i].is_public,
      submit_date |-> f[i].submit_date] : i \in {j \in DOMAIN f : f[j].stored}}
Tables ==
    {TableOf(f) : f \in [1..MaxRows ->
                            [stored : BOOLEAN, is_public : BOOLEAN, submit_date : 0..MaxNow]]}

InitSpam ==
    /\ registry = EmptyDict
    /\ now \in 0..MaxNow
    /\ comments \in Tables
    /\ next_id = MaxRows + 1
    /\ instance = <<>>
    /\ pc = "idle"
    /\ last = Outcome("import", "none", FALSE, "", 0, 0)

NextSpam ==
    \/ \E age \in 0..MaxAge, d \in BOOLEAN, v \in 0..2 : delete_spam_comments(age, d, v)
    \/ Tick

SpecSpam == InitSpam /\ [][NextSpam]_vars

----------------------------------------------------------------------------
\* The template tags of comment_utils.templatetags.moderated_comments. A tag
\* is compiled from its token and its node is then rendered with a context;
\* the tags here are written for the object "12" of the model Entry, as
\* "... for weblog.entry 12 as varname" or "... for weblog.entry entry.id as
\* varname".

\* settings.SITE_ID
SITE_ID == "this site"

\* What a stored comment is attached to: the content type, the object id and
\* the site; and the table it is stored in, FreeComment or Comment.
Attachments ==
    {[free |-> FALSE, model |-> "Entry", object_id |-> "12", site |-> SITE_ID],
     [free |-> TRUE, model |-> "Entry", object_id |-> "12", site |-> SITE_ID],
     [free |-> FALSE, model |-> "Page", object_id |-> "12", site |-> SITE_ID],
     [free |-> FALSE, model |-> "Entry", object_id |-> "13", site |-> SITE_ID],
     [free |-> FALSE, model |-> "Entry", object_id |-> "12", site |-> "other site"]}

\* The comment tables of up to MaxRows comments, each attached to something,
\* public or not, submitted at the clock's first or last tick.
AttachedTableOf(f) ==
    {[id |-> i, free |-> f[i].to.free, model |-> f[i].to.model,
      object_id |-> f[i].to.object_id, site |-> f[i].to.site,
      is_public |-> f[i].is_public, submit_date |-> f[i].submit_date] :
        i \in {j \in DOMAIN f : f[j].stored}}
AttachedTables ==
    {AttachedTableOf(f) :
        f \in [1..MaxRows -> [stored : BOOLEAN, to : Attachments, is_public : BOOLEAN,
                              submit_date : {0, MaxNow}]]}

\* The fourth word of the tag: a context variable that holds the object's id,
\* a context variable that the context does not hold, the id of an object
\* that exists as a hard-coded integer, or the id of none.
Given == {"variable", "missing variable", "integer", "integer of no object"}

\* The node a tag compiles to: the object id is held as a variable to resolve
\* or as the digits of the token.
NoNode == [context_var_name |-> None, obj_id |-> None]
Compiled(exc, node) == [exc |-> exc, node |-> node]

\* DoPublicCommentCount.__call__ and DoPublicCommentList.__call__ for a
\* well-formed token, as far as the object id goes.
compile_tag(given) ==
    IF given \in {"integer", "integer of no object"}
    THEN IF given = "integer of no object"
         THEN Compiled("TemplateSyntaxError", NoNode)
         ELSE Compiled("none", [context_var_name |-> None, obj_id |-> "12"])
    ELSE Compiled("none", [context_var_name |-> given, obj_id |-> None])

\* template.Variable(context_var_name).resolve(context)
resolve(context_var_name) ==
    IF context_var_name = "variable" THEN Ret("12") ELSE Raise("VariableDoesNotExist")

\* manager.filter(object_id__exact=..., content_type__app_label__exact=...,
\* content_type__model__exact=..., site__id__exact=settings.SITE_ID,
\* is_public__exact=True) on the manager of FreeComment or of Comment.
filter_public(rows, free, model, object_id) ==
    {c \in rows : /\ c.free = free
                  /\ c.object_id = object_id
                  /\ c.model = model
                  /\ c.site = SITE_ID
                  /\ c.is_public}

\* The record of a rendered tag: whether context[var_name] was set and to
\* what, and how the tag was written.
Rendered(op, exc, stored, val, free, given, reversed) ==
    [op |-> op, exc |-> exc, stored |-> stored, val |-> val,
     args |-> [free |-> free, given |-> given, reversed |-> reversed]]

\* PublicCommentCountNode.render: the local object_id is bound only when the
\* node holds a context variable.
PublicCommentCountNode_render(node, rows, free) ==
    LET r == IF node.context_var_name # None
             THEN resolve(node.context_var_name)
             ELSE Raise("UnboundLocalError")
    IN  IF r.exc # "none"
        THEN [exc |-> r.exc, stored |-> FALSE, val |-> 0]
        ELSE [exc |-> "none", stored |-> TRUE,
              val |-> Cardinality(filter_public(rows, free, "Entry", r.val))]

\* {% get_public_comment_count for weblog.entry ... as varname %}, or
\* get_public_free_comment_count when free: compiled, then rendered.
get_public_comment_count(free, given) ==
    /\ pc = "idle"
    /\ LET c == compile_tag(given)
           r == IF c.exc # "none"
                THEN [exc |-> c.exc, stored |-> FALSE, val |-> 0]
                ELSE PublicCommentCountNode_render(c.node, comments, free)
       IN  last' = Rendered("get_public_comment_count", r.exc, r.stored, r.val,
                            free, given, FALSE)
    /\ UNCHANGED <<registry, now, comments, next_id, instance, pc>>

\* A queryset ordered alike whatever ordering is asked for.
order_by_ascending(rows, ordering) ==
    {q \in [1..Cardinality(rows) -> rows] :
        /\ \A i, j \in DOMAIN q : i # j => q[i] # q[j]
        /\ \A i, j \in DOMAIN q : i < j => q[i].submit_date <= q[j].submit_date}

\* queryset.order_by(ordering + 'submit_date'): the lists the database may
\* answer with, comments of one submit_date coming in any order.
order_by(rows, ordering) ==
    {q \in [1..Cardinality(rows) -> rows] :
        /\ \A i, j \in DOMAIN q : i # j => q[i] # q[j]
        /\ \A i, j \in DOMAIN q :
              i < j => IF ordering = "-"
                       THEN q[i].submit_date >= q[j].submit_date
                       ELSE q[i].submit_date <= q[j].submit_date}

\* get_list_function(**kwargs) of CommentListNode.render: the kwargs name the
\* object and the site, and the extra_kwargs of the node are added to them.
get_list(rows, free, model, object_id, extra_kwargs) ==
    {c \in rows : /\ c.free = free
                  /\ c.object_id = object_id
                  /\ c.model = model
                  /\ c.site = SITE_ID
                  /\ extra_kwargs.is_public__exact => c.is_public}

\* "[c for c in comment_list if not c.is_hidden or (user_id == c.user_id)]"
not_hidden(comment_list, hidden) ==
    SelectSeq(comment_list, LAMBDA c : c.id \notin hidden)

\* CommentListNode.render for the node that DoPublicCommentList.__call__
\* returns: the outcomes it can have. banned is whether
\* settings.COMMENTS_BANNED_USERS_GROUP is set; the comments hidden then are
\* those of the users of that group other than the viewer, any of the list.
CommentListNode_render(node, rows, free, ordering, extra_kwargs, banned) ==
    LET r == IF node.context_var_name # None
             THEN resolve(node.context_var_name)
             ELSE Ret(node.obj_id)
    IN  IF r.exc # "none"
        THEN {[exc |-> "none", stored |-> FALSE, val |-> <<>>]}
        ELSE LET found == get_list(rows, free, "Entry", r.val, extra_kwargs)
                 comment_lists == order_by(found, ordering)
             IN  IF ~free /\ banned
                 THEN {[exc |-> "none", stored |-> TRUE, val |-> not_hidden(l, hidden)] :
                          l \in comment_lists, hidden \in SUBSET {c.id : c \in found}}
                 ELSE {[exc |-> "none", stored |-> TRUE, val |-> l] : l \in comment_lists}

\* {% get_public_comment_list for weblog.entry ... as varname %} with or
\* without "reversed", or get_public_free_comment_list when free: compiled,
\* then rendered.
get_public_comment_list(free, given, reversed, banned) ==
    /\ pc = "idle"
    /\ LET c == compile_tag(given)
           ordering == IF reversed THEN "-" ELSE ""
           extra_kwargs == [is_public__exact |-> TRUE]
           outcomes == IF c.exc # "none"
                       THEN {[exc |-> c.exc, stored |-> FALSE, val |-> <<>>]}
                       ELSE CommentListNode_render(c.node, comments, free, ordering,
                                                   extra_kwargs, banned)
       IN  \E r \in outcomes :
              last' = [op |-> "get_public_comment_list", exc |-> r.exc,
                       stored |-> r.stored, val |-> r.val,
                       args |-> [free |-> free, given |-> given,
                                 reversed |-> reversed, banned |-> banned]]
    /\ UNCHANGED <<registry, now, comments, next_id, instance, pc>>

InitTags ==
    /\ registry = EmptyDict
    /\ now = MaxNow
    /\ comments \in AttachedTables
    /\ next_id = MaxRows + 1
    /\ instance = <<>>
    /\ pc = "idle"
    /\ last = Outcome("import", "none", FALSE, "", 0, 0)

NextCount ==
    \E free \in BOOLEAN, given \in Given : get_public_comment_count(free, given)

SpecCount == InitTags /\ [][NextCount]_vars

NextList ==
    \E free \in BOOLEAN, given \in Given, reversed \in BOOLEAN, banned \in BOOLEAN :
        get_public_comment_list(free, given, reversed, banned)

SpecList == InitTags /\ [][NextList]_vars

----------------------------------------------------------------------------
\* CommentedObjectManager, the manager of a model whose objects are commented.

\* The primary keys of the objects of a model; no comment of the tables is
\* attached to the last.
ObjectPks == {"12", "13", "14"}

\* A subquery that counts the comments that are not public as well.
comment_count_any(rows, free, model, pk) ==
    Cardinality({c \in rows : c.free = free /\ c.model = model /\ c.object_id = pk})

\* The subquery of most_commented for the object pk of model: COUNT(*) of the
\* rows of the comment table (FreeComment's when free) with its content type,
\* its object id and is_public true.
comment_count(rows, free, model, pk) ==
    Cardinality({c \in rows : /\ c.free = free
                              /\ c.model = model
                              /\ c.object_id = pk
                              /\ c.is_public})

\* self.extra(select={'comment_count': subquery}, order_by=['-comment_count']):
\* the objects of the model with their counts, in the orders the database may
\* answer with.
extra_ordered(rows, free, model) ==
    LET objects == {[pk |-> pk, comment_count |-> comment_count(rows, free, model, pk)] :
                       pk \in ObjectPks}
    IN  {q \in [1..Cardinality(objects) -> objects] :
            /\ \A i, j \in DOMAIN q : i # j => q[i] # q[j]
            /\ \A i, j \in DOMAIN q : i < j => q[i].comment_count >= q[j].comment_count}

\* queryset[:num]
slice(q, num) == SubSeq(q, 1, IF num < Len(q) THEN num ELSE Len(q))

\* CommentedObjectManager.most_commented(num, free) of the manager of model.
most_commented(model, num, free) ==
    /\ pc = "idle"
    /\ \E q \in extra_ordered(comments, free, model) :
          last' = [op |-> "most_commented", exc |-> "none", val |-> slice(q, num),
                   args |-> [model |-> model, num |-> num, free |-> free]]
    /\ UNCHANGED <<registry, now, comments, next_id, instance, pc>>

\* The comment tables of the current site, whatever the comments' dates.
InitCommented ==
    /\ registry = EmptyDict
    /\ now = MaxNow
    /\ comments \in {t \in AttachedTables :
                        \A c \in t : c.site = SITE_ID /\ c.submit_date = 0}
    /\ next_id = MaxRows + 1
    /\ instance = <<>>
    /\ pc = "idle"
    /\ last = Outcome("import", "none", FALSE, "", 0, 0)

\* The manager is that of Entry.
NextCommented ==
    \E num \in 0..MaxNum, free \in BOOLEAN : most_commented("Entry", num, free)

SpecCommented == InitCommented /\ [][NextCommented]_vars

----------------------------------------------------------------------------
\* Properties of the registry.

\* The i-th model of the list is reached with the registry as the call found
\* it plus the models before it: none of the first i models was registered
\* when the call began, and none of them repeats an earlier one.
Fresh(models, i, reg) ==
    \A j \in 1..i :
        /\ models[j] \notin DOMAIN reg
        /\ \A k \in 1..(j - 1) : models[k] # models[j]

\* C1: register raises AlreadyModerated whenever a model it is given, a single
\* model or an element of a list, is in the registry when it is called (or
\* is given twice in the list, which registers it before it is met again); a
\* model that is not yet registered when the loop reaches it is in the
\* registry afterwards with an instance of the given moderation class, a
\* call that does not raise leaves every model it was given registered with
\* that class, and no other model's registration changes.
C1_RegisterRaisesOrAdds ==
    [][last'.op = "register" =>
        LET models == last'.args.models
            c == last'.args.moderation_class
        IN  /\ (\E i \in 1..Len(models) : models[i] \in DOMAIN registry)
                  => last'.exc = "AlreadyModerated"
            /\ last'.exc = IF \A i \in 1..Len(models) : Fresh(models, i, registry)
                           THEN "none" ELSE "AlreadyModerated"
            /\ \A i \in 1..Len(models) :
                  Fresh(models, i, registry)
                      => /\ models[i] \in DOMAIN registry'
                         /\ registry'[models[i]] = c
            /\ last'.exc = "none"
                  => \A i \in 1..Len(models) :
                        /\ models[i] \notin DOMAIN registry
                        /\ registry'[models[i]] = c
            /\ \A m \in DOMAIN registry :
                  m \in DOMAIN registry' /\ registry'[m] = registry[m]
    ]_vars

\* A call of register has raised AlreadyModerated on a registry that holds
\* both models, one with NoComments and one with AlwaysModerate.
C1_Witness ==
    /\ last.op = "register"
    /\ last.exc = "AlreadyModerated"
    /\ DOMAIN registry = Models
    /\ registry["Entry"] = NoComments
    /\ registry["Page"] = AlwaysModerate

\* The i-th model of the list is reached by unregister: each of the first i
\* models was registered when the call began, and none repeats an earlier one.
Stale(models, i, reg) ==
    \A j \in 1..i :
        /\ models[j] \in DOMAIN reg
        /\ \A k \in 1..(j - 1) : models[k] # models[j]

\* C2: unregister raises NotModerated whenever a model it is given is not in
\* the registry when it is called (or is given twice); a registered model the
\* loop reaches is removed, and no other registration changes. For a comment
\* on a model that is not in the registry the pre-save hook leaves the
\* instance as it is and the post-save hook neither deletes nor mails; and
\* registering a model that is not in the registry does not raise.
C2_UnregisterRaisesOrRemoves ==
    [][/\ last'.op = "unregister" =>
            LET models == last'.args.models
            IN  /\ (\E i \in 1..Len(models) : models[i] \notin DOMAIN registry)
                      => last'.exc = "NotModerated"
                /\ last'.exc = IF \A i \in 1..Len(models) : Stale(models, i, registry)
                               THEN "none" ELSE "NotModerated"
                /\ \A i \in 1..Len(models) :
                      Stale(models, i, registry) => models[i] \notin DOMAIN registry'
                /\ \A m \in DOMAIN registry' :
                      m \in DOMAIN registry /\ registry'[m] = registry[m]
                /\ \A m \in DOMAIN registry \ DOMAIN registry' :
                      \E i \in 1..Len(models) : models[i] = m
       /\ (last'.op = "pre_save_moderation" /\ instance[1].model \notin DOMAIN registry)
            => /\ instance' = instance
               /\ pc' = "insert"
               /\ last'.exc = "none"
       /\ (last'.op = "post_save_moderation" /\ instance[1].model \notin DOMAIN registry)
            => /\ comments' = comments
               /\ last'.count = 0
               /\ Row(instance[1]) \in comments'
       /\ (last'.op = "register" /\ Len(last'.args.models) = 1
                                 /\ last'.args.models[1] \notin DOMAIN registry)
            => /\ last'.exc = "none"
               /\ last'.args.models[1] \in DOMAIN registry'
    ]_vars

\* A model has been unregistered after a comment on a registered model was
\* deleted as disallowed.
C2_Witness ==
    /\ last.op = "unregister"
    /\ last.exc = "none"
    /\ Len(last.args.models) >= 1
    /\ comments = {}
    /\ next_id > 1

----------------------------------------------------------------------------
\* Properties of the two moderation phases.

\* The comment being saved is new and on a model of the registry.
NewModerated ==
    /\ instance # <<>>
    /\ instance[1].id = 0
    /\ instance[1].model \in DOMAIN registry

\* C3: a new comment on an object of a registered model whose moderator's
\* allow returns False is marked by the pre-save hook with is_public as
\* submitted, is then written to the table once, and is deleted from it by
\* the post-save hook: when the save has completed no row has its id.
C3_DisallowedCommentDeleted ==
    [][/\ (last'.op = "pre_save_moderation" /\ NewModerated
             /\ allow(registry[instance[1].model], instance[1].content_object, now)
                    = Ret(FALSE))
            => /\ pc' = "insert"
               /\ instance' = <<[instance[1] EXCEPT !.moderation_disallowed = TRUE]>>
       /\ (last'.op = "save_base" /\ instance[1].moderation_disallowed)
            => /\ pc' = "post_save"
               /\ instance'[1].moderation_disallowed
               /\ instance'[1].id # 0
               /\ Row(instance'[1]) \in comments'
               /\ Cardinality(comments') = Cardinality(comments) + 1
       /\ (last'.op = "post_save_moderation" /\ instance[1].moderation_disallowed)
            => /\ instance[1].model \in DOMAIN registry
               /\ Row(instance[1]) \in comments
               /\ comments' = comments \ {Row(instance[1])}
               /\ \A c \in comments' : c.id # instance[1].id
               /\ pc' = "idle"
    ]_vars

\* The post-save hook has deleted a disallowed comment: the table is empty
\* again and the id is used up.
C3_Witness ==
    /\ last.op = "post_save_moderation"
    /\ last.did = "deleted"
    /\ pc = "idle"
    /\ comments = {}
    /\ next_id = 2

\* C4: for a new comment on a registered model that allow lets through, the
\* pre-save hook sets is_public to False when moderate returns True and
\* leaves is_public as submitted when moderate returns False; it changes
\* nothing else of the comment.
C4_ModeratedCommentNonPublic ==
    [][(last'.op = "pre_save_moderation" /\ NewModerated
          /\ allow(registry[instance[1].model], instance[1].content_object, now) = Ret(TRUE))
        => \A api \in AkismetAnswers :
              pre_save_moderation(api) =>
                 LET m == moderate(registry[instance[1].model],
                                   instance[1].content_object, now, api)
                 IN  /\ m = Ret(TRUE)
                        => instance' = <<[instance[1] EXCEPT !.is_public = FALSE]>>
                     /\ m = Ret(FALSE) => instance' = instance
                     /\ m.exc = "none" => pc' = "insert"
                     /\ ~instance'[1].moderation_disallowed
    ]_vars

\* The pre-save hook has moderated a comment: it goes to the table non-public.
C4_Witness ==
    /\ last.op = "pre_save_moderation"
    /\ last.did = "moderated"
    /\ pc = "insert"
    /\ ~instance[1].is_public
    /\ registry[instance[1].model] = DatedModerator

\* C5: the post-save hook sends one notification mail for a comment on an
\* object of a registered model that was not disallowed when the model's
\* moderation class has email_notification True, and the comment stays in
\* the table; it sends none for a disallowed comment, none when
\* email_notification is False, and no other step of a save sends mail.
C5_EmailForSurvivingComment ==
    [][/\ last'.op = "post_save_moderation" =>
            LET inst == instance[1]
                registered == inst.model \in DOMAIN registry
            IN  /\ (registered /\ ~inst.moderation_disallowed
                        /\ registry[inst.model].email_notification)
                      => /\ last'.count = 1
                         /\ Row(inst) \in comments'
                /\ (registered /\ inst.moderation_disallowed) => last'.count = 0
                /\ (registered /\ ~registry[inst.model].email_notification)
                      => last'.count = 0
                /\ ~registered => last'.count = 0
       /\ last'.op \in {"save", "pre_save_moderation", "save_base"} => last'.count = 0
    ]_vars

\* A mail has been sent for a new comment that the pre-save hook moderated:
\* it is in the table, non-public.
C5_Witness ==
    /\ last.op = "post_save_moderation"
    /\ last.count = 1
    /\ \E c \in comments : ~c.is_public /\ registry[c.model] = DatedModerator

----------------------------------------------------------------------------
\* Properties of delete_spam_comments. The record of a run holds dry_run as
\* its value and the printed number as its count.

\* The comments that are not public and were submitted strictly before the
\* moment age days before t.
OldNonPublic(rows, t, age) ==
    {c \in rows : c.is_public = FALSE /\ c.submit_date + age * TicksPerDay < t}

\* C6: a dry run of delete_spam_comments deletes no comment, the table is as
\* it was, and the number it prints is the number of comments that match the
\* criteria of deletion, which is the number a run that deletes prints on the
\* same table.
C6_DryRunDeletesNothing ==
    [][(last'.op = "delete_spam_comments" /\ last'.val) =>
        \A age \in 0..MaxAge, v \in 0..2 :
            delete_spam_comments(age, TRUE, v) =>
                /\ comments' = comments
                /\ last'.count = Cardinality(OldNonPublic(comments, now, age))
                /\ last'.lines = 1
    ]_vars

\* A dry run has reported two comments, and both are still in the table.
C6_Witness ==
    /\ last.op = "delete_spam_comments"
    /\ last.val
    /\ last.count = 2
    /\ Cardinality({c \in comments : ~c.is_public}) = 2

\* C7: a run of delete_spam_comments that is not dry deletes every comment
\* that is not public and was submitted strictly before now minus age days,
\* and no other: the public comments and the non-public ones submitted at or
\* after the cutoff remain. The number it prints is the number of comments it
\* deleted, and the table it leaves does not depend on the verbosity.
C7_RealRunDeletesOldNonPublic ==
    [][(last'.op = "delete_spam_comments" /\ ~last'.val) =>
        \A age \in 0..MaxAge, v \in 0..2 :
            delete_spam_comments(age, FALSE, v) =>
                /\ comments' = {c \in comments :
                                   c.is_public \/ c.submit_date >= now - age * TicksPerDay}
                /\ comments \ comments' = OldNonPublic(comments, now, age)
                /\ last'.count = Cardinality(comments) - Cardinality(comments')
    ]_vars

\* A run has deleted one comment and left a non-public one, submitted at the
\* clock's last tick, in the table.
C7_Witness ==
    /\ last.op = "delete_spam_comments"
    /\ ~last.val
    /\ last.count = 1
    /\ now = MaxNow
    /\ \E c \in comments : ~c.is_public /\ c.submit_date = MaxNow

----------------------------------------------------------------------------
\* Properties of the filters and of the moderation options.

\* C8: for an object of a model without moderation rules in the registry
\* Moderator.comments_open returns True and Moderator.comments_moderated
\* returns False; for an object of a registered model each returns what the
\* method of the same name of the registered instance returns (or raises what
\* it raises). The registry is in any state register and unregister lead to.
C8_UnregisteredOpenUnmoderated ==
    /\ last.op = "comments_open" =>
          LET model == last.args.models[1]
              r == [exc |-> last.exc, val |-> last.val]
          IN  IF model \notin DOMAIN registry
              THEN r = Ret(TRUE)
              ELSE r = comments_open(registry[model], last.args.obj, now)
    /\ last.op = "comments_moderated" =>
          LET model == last.args.models[1]
              r == [exc |-> last.exc, val |-> last.val]
          IN  IF model \notin DOMAIN registry
              THEN r = Ret(FALSE)
              ELSE r = comments_moderated(registry[model], last.args.obj, now)

\* comments_open has answered True for an object of the one model that is
\* not registered, Entry being registered with NoComments.
C8_Witness ==
    /\ last.op = "comments_open"
    /\ last.exc = "none"
    /\ last.val
    /\ last.args.models = <<"Page">>
    /\ DOMAIN registry = {"Entry"}
    /\ registry["Entry"] = NoComments

\* C9: for every moderation class (every setting of enable_field,
\* auto_close_field and close_after, and NoComments), every object and every
\* time, comments_open(obj) returns what allow(comment, obj) returns for a new
\* comment, and raises when it raises: it is True exactly when the pre-save
\* hook does not mark a new comment on obj for deletion.
C9_CommentsOpenIsAllow ==
    \A model \in DOMAIN registry, obj \in Objects :
        comments_open(registry[model], obj, now) = allow(registry[model], obj, now)

\* comments_open has answered False for an object with comments enabled, of a
\* model whose class closes comments by date alone.
C9_Witness ==
    /\ last.op = "comments_open"
    /\ last.exc = "none"
    /\ ~last.val
    /\ registry["Entry"].kind = "CommentModerator"
    /\ registry["Entry"].enable_field = None
    /\ registry["Entry"].auto_close_field = "pub_date"
    /\ \E obj \in QueriedObjects :
          /\ obj.enable_comments
          /\ allow(registry["Entry"], obj, now) = Ret(FALSE)

\* C10: for every moderation class without Akismet (every setting of
\* moderate_field, auto_moderate_field and moderate_after, and
\* AlwaysModerate), comments_moderated(obj) is True exactly when moderate
\* returns True for a new allowed comment on obj, which is when the pre-save
\* hook sets its is_public to False.
C10_CommentsModeratedIsModerate ==
    \A model \in DOMAIN registry, obj \in Objects, api \in AkismetAnswers :
        LET self == registry[model]
        IN  (/\ ~self.akismet
             /\ self.kind \in {"CommentModerator", "AlwaysModerate"}
             /\ allow(self, obj, now) = Ret(TRUE))
            => (comments_moderated(self, obj, now) = Ret(TRUE)
                   <=> moderate(self, obj, now, api) = Ret(TRUE))

\* The first tick of the day or the moment a date field holds: a date stands
\* for the start of its day.
StartOf(then) == IF then.kind = "date" THEN then.at * TicksPerDay ELSE then.at

----------------------------------------------------------------------------
\* Properties of the moderation options in a save.

\* The date rule of moderate fires: auto_moderate_field and moderate_after
\* are set and at least moderate_after whole days have elapsed since the date.
DateRuleModerates(self, obj, t) ==
    /\ self.auto_moderate_field # None
    /\ self.moderate_after # 0
    /\ t >= StartOf(obj.pub_date) + self.moderate_after * TicksPerDay

\* The date rule of moderate meets a date in the future.
DateRuleInFuture(self, obj, t) ==
    /\ self.auto_moderate_field # None
    /\ self.moderate_after # 0
    /\ t < StartOf(obj.pub_date)

\* C12: in the pre-save hook of a new allowed comment on a model whose class
\* has akismet True, when the date rule of moderate does not fire the comment
\* gets is_public False exactly when the API key verifies and the spam check
\* reports spam, and is left as submitted when the key fails to verify or the
\* spam check reports no spam (it is not asked when the key failed); when
\* the date rule fires the comment is moderated whatever Akismet would answer
\* and no request is made to Akismet.
C12_AkismetModerates ==
    [][(last'.op = "pre_save_moderation" /\ NewModerated
          /\ registry[instance[1].model].akismet
          /\ allow(registry[instance[1].model], instance[1].content_object, now) = Ret(TRUE)
          /\ ~DateRuleInFuture(registry[instance[1].model], instance[1].content_object, now))
        => \A api \in AkismetAnswers :
              pre_save_moderation(api) =>
                 LET self == registry[instance[1].model]
                     obj == instance[1].content_object
                     m == CommentModerator_moderate(self, obj, now, api)
                 IN  IF DateRuleModerates(self, obj, now)
                     THEN /\ m = Ret(TRUE)
                          /\ instance' = <<[instance[1] EXCEPT !.is_public = FALSE]>>
                          /\ last'.requests = <<>>
                          /\ pc' = "insert"
                     ELSE /\ m = Ret(api.verify_key /\ api.comment_check)
                          /\ (api.verify_key /\ api.comment_check)
                                => instance' = <<[instance[1] EXCEPT !.is_public = FALSE]>>
                          /\ ~(api.verify_key /\ api.comment_check) => instance' = instance
                          /\ last'.requests = IF api.verify_key
                                              THEN <<"verify_key", "comment_check">>
                                              ELSE <<"verify_key">>
                          /\ pc' = "insert"
    ]_vars

\* The pre-save hook has moderated a comment that Akismet, asked with a key
\* that verified, thinks is spam: the date rule of the class is set but has
\* not fired, and the comment goes to the table non-public.
C12_Witness ==
    /\ last.op = "pre_save_moderation"
    /\ last.did = "moderated"
    /\ last.requests = <<"verify_key", "comment_check">>
    /\ pc = "insert"
    /\ ~instance[1].is_public
    /\ registry["Entry"].akismet
    /\ registry["Entry"].auto_moderate_field = "pub_date"
    /\ registry["Entry"].moderate_after = MaxAfter
    /\ ~DateRuleModerates(registry["Entry"], instance[1].content_object, now)

\* C13: the moderate of ModerateFirstTimers returns a decision for every
\* comment: True when the submitter has no stored comment with is_public
\* True, False when the submitter has at least one. Whatever the stored
\* comments are, a call of it returns True or False and raises nothing.
C13_FirstTimersModerateDecides ==
    \A model \in DOMAIN registry :
        (last.op = "moderate" /\ registry[model].kind = "ModerateFirstTimers")
            => /\ last.exc = "none"
               /\ last.val \in BOOLEAN

----------------------------------------------------------------------------
\* Properties of the template tags.

\* C14: the get_public_comment_count and get_public_free_comment_count tags
\* store in the named context variable the number of comments with is_public
\* True of their table that are attached to the given object (its app label
\* and model, its id, the current site), when the id is given as a context
\* variable that holds it and when it is given as a hard-coded integer of an
\* object that exists.
C14_PublicCountStored ==
    (last.op = "get_public_comment_count"
        /\ last.args.given \in {"variable", "integer"})
    => /\ last.exc = "none"
       /\ last.stored
       /\ last.val = Cardinality({c \in comments :
                                     /\ c.is_public
                                     /\ c.free = last.args.free
                                     /\ c.model = "Entry" /\ c.object_id = "12"
                                     /\ c.site = SITE_ID})

\* C15: the get_public_comment_list and get_public_free_comment_list tags,
\* given the object's id as a context variable that holds it or as the
\* integer of an object that exists, store in the named context variable a
\* list of comments of their table that are attached to the object, each with
\* is_public True and none twice, ordered by submit_date ascending, or
\* descending when "reversed" is the final argument; a comment with
\* is_public False is never in the list, and where no comment is hidden for
\* its banned author every public comment of the object is in it.
C15_PublicListOrdered ==
    (last.op = "get_public_comment_list" /\ last.args.given \in {"variable", "integer"})
    => LET l == last.val
       IN  /\ last.exc = "none"
           /\ last.stored
           /\ \A i \in 1..Len(l) :
                 /\ l[i] \in comments
                 /\ l[i].is_public
                 /\ l[i].free = last.args.free
                 /\ l[i].model = "Entry" /\ l[i].object_id = "12" /\ l[i].site = SITE_ID
           /\ \A i, j \in 1..Len(l) : i # j => l[i].id # l[j].id
           /\ \A i, j \in 1..Len(l) :
                 i < j => IF last.args.reversed
                          THEN l[i].submit_date >= l[j].submit_date
                          ELSE l[i].submit_date <= l[j].submit_date
           /\ \A c \in comments : ~c.is_public => \A i \in 1..Len(l) : l[i].id # c.id
           /\ (last.args.free \/ ~last.args.banned)
                 => \A c \in comments :
                       (/\ c.is_public /\ c.free = last.args.free /\ c.model = "Entry"
                        /\ c.object_id = "12" /\ c.site = SITE_ID)
                       => \E i \in 1..Len(l) : l[i] = c

\* A reversed list of two public comments has been stored: the one submitted
\* at the clock's last tick comes before the one submitted at its first.
C15_Witness ==
    /\ last.op = "get_public_comment_list"
    /\ last.stored
    /\ last.args.reversed
    /\ Len(last.val) = 2
    /\ last.val[1].submit_date = MaxNow
    /\ last.val[2].submit_date = 0

----------------------------------------------------------------------------
\* Properties of the manager.

\* The number of public comments of the table a call of most_commented reads
\* that are attached to the object pk of the manager's model.
PublicCommentsOf(pk) ==
    Cardinality({c \in comments : /\ c.is_public
                                  /\ c.free = last.args.free
                                  /\ c.model = last.args.model
                                  /\ c.object_id = pk})

\* C16: most_commented(num) returns at most num objects of the manager's
\* model (num of them when the model has that many), none twice, in
\* descending order of their count of comments with is_public True whose
\* content type is the model and whose object id is the object's primary key,
\* each annotated with that count; no object left out has a strictly higher
\* count than an object of the result.
C16_MostCommentedRanked ==
    last.op = "most_commented"
    => LET l == last.val
           pks == {l[i].pk : i \in 1..Len(l)}
       IN  /\ last.exc = "none"
           /\ Len(l) <= last.args.num
           /\ Len(l) = last.args.num \/ pks = ObjectPks
           /\ pks \subseteq ObjectPks
           /\ Cardinality(pks) = Len(l)
           /\ \A i \in 1..Len(l) : l[i].comment_count = PublicCommentsOf(l[i].pk)
           /\ \A i, j \in 1..Len(l) :
                 i < j => PublicCommentsOf(l[i].pk) >= PublicCommentsOf(l[j].pk)
           /\ \A pk \in ObjectPks \ pks :
                 \A i \in 1..Len(l) : PublicCommentsOf(pk) <= PublicCommentsOf(l[i].pk)

\* most_commented(2) has answered with an object of one public comment and an
\* object of none, the table holding a comment that is not public on the
\* latter.
C16_Witness ==
    /\ last.op = "most_commented"
    /\ last.args.num = 2
    /\ Len(last.val) = 2
    /\ last.val[1].comment_count = 1
    /\ last.val[2].comment_count = 0
    /\ \E c \in comments : ~c.is_public /\ c.free = last.args.free
                           /\ c.model = last.args.model /\ c.object_id = last.val[2].pk

\* The date rule of allow and comments_open is reached with a date in the
\* future: enable_field has not closed the comments, auto_close_field and
\* close_after are set and the date of the field is later than t, both taken
\* as dates when the field holds a date.
CloseRuleInFuture(self, obj, t) ==
    /\ ~(self.enable_field # None /\ ~obj.enable_comments)
    /\ self.auto_close_field # None
    /\ self.close_after # 0
    /\ t < StartOf(obj.pub_date)

----------------------------------------------------------------------------
\* Properties of a call of the registry that raises.

\* The models the loop of register has passed when it raises: those before
\* the first model of the list that is registered or was given before.
PassedByRegister(models, reg) ==
    {models[j] : j \in {i \in 1..Len(models) : Fresh(models, i, reg)}}

\* The models the loop of unregister has passed when it raises.
PassedByUnregister(models, reg) ==
    {models[j] : j \in {i \in 1..Len(models) : Stale(models, i, reg)}}

\* C18: register and unregister on a list of models are not atomic. When
\* register raises AlreadyModerated at an element, every model before it in
\* the list was registered by the call, with the given class, and stays so;
\* when unregister raises NotModerated at an element, every model before it
\* was unregistered by the call and stays so. The offending element and the
\* later elements are not touched: every model other than those before the
\* offending element is registered, and with the class, as it was.
C18_ListCallsNotAtomic ==
    [][/\ (last'.op = "register" /\ last'.exc # "none") =>
            LET models == last'.args.models
                passed == PassedByRegister(models, registry)
            IN  /\ last'.exc = "AlreadyModerated"
                /\ \E k \in 1..Len(models) :
                      /\ ~Fresh(models, k, registry)
                      /\ passed = {models[j] : j \in 1..(k - 1)}
                      /\ models[k] \in DOMAIN registry'
                /\ \A m \in passed :
                      /\ m \notin DOMAIN registry
                      /\ m \in DOMAIN registry'
                      /\ registry'[m] = last'.args.moderation_class
                /\ \A m \in Models \ passed :
                      /\ m \in DOMAIN registry' <=> m \in DOMAIN registry
                      /\ m \in DOMAIN registry => registry'[m] = registry[m]
       /\ (last'.op = "unregister" /\ last'.exc # "none") =>
            LET models == last'.args.models
                passed == PassedByUnregister(models, registry)
            IN  /\ last'.exc = "NotModerated"
                /\ \E k \in 1..Len(models) :
                      /\ ~Stale(models, k, registry)
                      /\ passed = {models[j] : j \in 1..(k - 1)}
                      /\ models[k] \notin DOMAIN registry'
                /\ \A m \in passed :
                      /\ m \in DOMAIN registry
                      /\ m \notin DOMAIN registry'
                /\ \A m \in Models \ passed :
                      /\ m \in DOMAIN registry' <=> m \in DOMAIN registry
                      /\ m \in DOMAIN registry => registry'[m] = registry[m]
    ]_vars

\* register has raised AlreadyModerated at the second model of a list, which
\* keeps the class it was registered with; the first model of the list is
\* registered with the class of the call.
C18_Witness ==
    /\ last.op = "register"
    /\ last.exc = "AlreadyModerated"
    /\ ~last.args.is_model
    /\ last.args.models = <<"Page", "Entry">>
    /\ last.args.moderation_class = AlwaysModerate
    /\ DOMAIN registry = Models
    /\ registry["Page"] = AlwaysModerate
    /\ registry["Entry"] = NoComments

====
